---- MODULE Spec2Model ----
(***************************************************************************)
(* Model of the slack-invite-request server (src/server.js): the session   *)
(* gated routes /signin, /apply and /thanks, the upload relocation done    *)
(* with async.parallel over mv, and the Slack notification built from a    *)
(* submitted form.                                                         *)
(*                                                                         *)
(* Node runs one callback at a time, so every action below is one          *)
(* synchronous run of JavaScript: a route's middleware chain up to its     *)
(* first asynchronous call, or the completion callback of one asynchronous *)
(* call (a view render, one mv, the webhook request).                      *)
(***************************************************************************)
EXTENDS Integers, Sequences, FiniteSets, TLC

VARIABLES
    session,    \* the session store: session id -> session.user
    hits,       \* the rate limiter's counter of the client in its window
    formValue,  \* strings.apply.form.{fullName,email}.value (module global)
    rq,         \* the requests in flight, one record per slot
    wire,       \* a submitted form as it came over the wire (form checks)
    out         \* what the handler derived from `wire` (form checks)

vars == <<session, hits, formValue, rq, wire, out>>

----------------------------------------------------------------------------
(* Bounds *)

\* requests the rate limiter lets through in one window
RateMax == 2
\* uploads of one submission in the request pipeline
MaxFiles == 2
\* text fields of one submitted form (form checks)
MaxFields == 2
\* uploads of one submitted form (form checks)
MaxUploads == 2

Sessions == {"s1", "s2"}
\* slots for the requests the server is handling at one time
Reqs == {1, 2}

----------------------------------------------------------------------------
(* Text: names are sequences of one-character strings, so that the code's  *)
(* character-level conversions can be computed.                            *)

Lowers == <<"a","b","c","d","e","f","g","h","i","j","k","l","m",
            "n","o","p","q","r","s","t","u","v","w","x","y","z">>
Uppers == <<"A","B","C","D","E","F","G","H","I","J","K","L","M",
            "N","O","P","Q","R","S","T","U","V","W","X","Y","Z">>
Digits == <<"0","1","2","3","4","5","6","7","8","9">>

Pos(seq, c) == CHOOSE i \in 1..Len(seq) : seq[i] = c
Has(seq, c) == \E i \in 1..Len(seq) : seq[i] = c
IsLower(c) == Has(Lowers, c)
IsUpper(c) == Has(Uppers, c)
IsDigit(c) == Has(Digits, c)
IsWordChar(c) == IsLower(c) \/ IsUpper(c) \/ IsDigit(c)
ToUpper(c) == IF IsLower(c) THEN Uppers[Pos(Lowers, c)] ELSE c
ToLower(c) == IF IsUpper(c) THEN Lowers[Pos(Uppers, c)] ELSE c

\* a sequence of characters as one string
RECURSIVE Str(_)
Str(s) == IF s = <<>> THEN "" ELSE Head(s) \o Str(Tail(s))

\* change-case: a space at every lower|digit -> upper boundary and before
\* the last capital of a run of capitals that a lower-case letter follows
RECURSIVE CamelSplit(_, _)
CamelSplit(s, i) ==
    IF i > Len(s) THEN <<>>
    ELSE LET gap ==
                 /\ i < Len(s)
                 /\ IsUpper(s[i + 1])
                 /\ \/ IsLower(s[i]) \/ IsDigit(s[i])
                    \/ IsUpper(s[i]) /\ i + 2 <= Len(s) /\ IsLower(s[i + 2])
         IN  <<s[i]>> \o (IF gap THEN <<" ">> ELSE <<>>) \o CamelSplit(s, i + 1)

\* change-case: every run of non-word characters becomes one space, and
\* the text loses the spaces at its two ends
RECURSIVE Words(_, _, _)
Words(s, i, acc) ==
    IF i > Len(s)
    THEN IF acc # <<>> /\ acc[Len(acc)] = " " THEN SubSeq(acc, 1, Len(acc) - 1) ELSE acc
    ELSE IF IsWordChar(s[i])
         THEN Words(s, i + 1, Append(acc, s[i]))
         ELSE IF acc = <<>> \/ acc[Len(acc)] = " "
              THEN Words(s, i + 1, acc)
              ELSE Words(s, i + 1, Append(acc, " "))

NoCase(s) ==
    LET w == Words(CamelSplit(s, 1), 1, <<>>)
    IN  [i \in 1..Len(w) |-> ToLower(w[i])]

\* changeCase.title: the lower-cased words, each with a capital first letter
TitleCase(s) ==
    LET w == NoCase(s)
    IN  [i \in 1..Len(w) |-> IF i = 1 \/ w[i - 1] = " " THEN ToUpper(w[i]) ELSE w[i]]

----------------------------------------------------------------------------
(* JavaScript objects: req.body and req.files are plain objects. Their     *)
(* keys are enumerated (for-in, _.pairs, _.map) array indices first, in    *)
(* ascending numeric order, then every other key in insertion order.       *)

RECURSIVE NumVal(_)
NumVal(s) == IF s = <<>> THEN 0 ELSE 10 * NumVal(SubSeq(s, 1, Len(s) - 1)) + (Pos(Digits, s[Len(s)]) - 1)

IsArrayIndex(s) ==
    /\ s # <<>>
    /\ \A i \in 1..Len(s) : IsDigit(s[i])
    /\ Len(s) = 1 \/ s[1] # "0"

RECURSIVE Ascending(_)
Ascending(S) ==
    IF S = {} THEN <<>>
    ELSE LET m == CHOOSE k \in S : \A j \in S : NumVal(k) <= NumVal(j)
         IN  <<m>> \o Ascending(S \ {m})

\* the keys of the object built by assigning names[1], names[2], ... in turn
ObjectKeys(names) ==
    LET notIdx(k) == ~IsArrayIndex(k)
    IN  Ascending({names[i] : i \in {j \in 1..Len(names) : IsArrayIndex(names[j])}})
            \o SelectSeq(names, notIdx)

----------------------------------------------------------------------------
(* Identities: what the browser posts as body.user and the session keeps.  *)

Undefined == [kind |-> "undefined", displayName |-> "", emails |-> <<>>]
Ann == [kind |-> "plus#person", displayName |-> "Ann", emails |-> <<"ann@x.com">>]
Bob == [kind |-> "plus#person", displayName |-> "Bob", emails |-> <<"bob@x.com", "bob@y.org">>]
\* a Google+ person whose profile carries no e-mail address
Cy == [kind |-> "plus#person", displayName |-> "Cy", emails |-> <<>>]
Eve == [kind |-> "plus#page", displayName |-> "Eve", emails |-> <<"eve@x.com">>]

SignInBodies == {Undefined, Ann, Bob, Cy, Eve}

----------------------------------------------------------------------------
(* A submitted form: its text fields and its uploads, in wire order.       *)

NoForm == [fields |-> <<>>, uploads |-> <<>>]

Names(pairs) == [i \in 1..Len(pairs) |-> pairs[i].name]
UploadFields(ups) == [i \in 1..Len(ups) |-> ups[i].field]
ValueOf(pairs, k) == pairs[CHOOSE i \in 1..Len(pairs) : pairs[i].name = k].value
UploadOf(ups, k) == ups[CHOOSE i \in 1..Len(ups) : ups[i].field = k]

comments == <<"c","o","m","m","e","n","t","s">>
fullName == <<"f","u","l","l","N","a","m","e">>
email == <<"e","m","a","i","l">>

DirName == "/app"
originUri == "http://host"

\* for (var field in files): filename, dest and uri of every upload
RelocatedFiles(ups) ==
    LET keys == ObjectKeys(UploadFields(ups))
    IN  [i \in 1..Len(keys) |->
            LET fileObj == UploadOf(ups, keys[i])
                filename == Str(keys[i]) \o "-" \o Str(fileObj.name)
            IN  [fieldname |-> Str(keys[i]),
                 name |-> Str(fileObj.name),
                 dest |-> DirName \o "/public/images/" \o filename,
                 uri |-> originUri \o "/images/" \o filename]]

\* _.pairs(_.omit(req.body, 'comments')) mapped to {title, value, short}
BodyFields(pairs) ==
    LET notComments(k) == k # comments
        keys == SelectSeq(ObjectKeys(Names(pairs)), notComments)
    IN  [i \in 1..Len(keys) |->
            [title |-> Str(TitleCase(keys[i])), value |-> ValueOf(pairs, keys[i]), short |-> TRUE]]

\* _.map(files, ...): one {title, value, short} per relocated file
FileFields(files) ==
    [i \in 1..Len(files) |->
        [title |-> files[i].fieldname, value |-> "<" \o files[i].uri \o "|View>", short |-> TRUE]]

\* attachments[0].fields of the payload handed to slack(...)
SlackFields(form) == BodyFields(form.fields) \o FileFields(RelocatedFiles(form.uploads))

\* attachments[0].text: the quoted comments, when the form has any
SlackText(pairs) ==
    IF \E i \in 1..Len(pairs) : pairs[i].name = comments /\ pairs[i].value # ""
    THEN "\"" \o ValueOf(pairs, comments) \o "\""
    ELSE "undefined"

SlackPayload(user, form) ==
    [author_name |-> user.displayName,
     text |-> SlackText(form.fields),
     fields |-> SlackFields(form)]

----------------------------------------------------------------------------
(* Responses *)

Resp(status, location, page, name, mail) ==
    [status |-> status, location |-> location, page |-> page, fullName |-> name, email |-> mail]

\* validate(): a request without session.user is sent to the sign-in page
GuardResponse == Resp(302, "/signin", "", "", "")
\* rateLimit(): too many requests
Throttled == Resp(429, "", "", "", "")
\* res.sendStatus(500), and the catch-all error handler's status(500)
ServerError == Resp(500, "", "", "", "")
Redirect(to) == Resp(302, to, "", "", "")
Status(code) == Resp(code, "", "", "", "")
Page(view, form) == Resp(200, "", view, form.fullName, form.email)

----------------------------------------------------------------------------
(* Middleware *)

\* dotty.get(req, 'session.user') is set: validate() calls next()
validate(user) == user # Undefined

\* mutant: POST /apply mounted without validate()
GuardedRoutes_NoPost == {"GET /thanks", "GET /apply"}

\* the routes that mount validate() ahead of their handler
GuardedRoutes == {"GET /thanks", "GET /apply", "POST /apply"}

\* rateLimit(): the request is within the window's allowance
rateLimit(h) == h < RateMax
\* rateLimit() counts the request (the counter stops one past the allowance)
Counted(h) == IF h <= RateMax THEN h + 1 ELSE h

\* mutant: the kind of body.user is not tested
signinAccepts_AnyKind(user) == user # Undefined

\* POST /signin: the test the handler makes on body.user
signinAccepts(user) == user # Undefined /\ user.kind = "plus#person"

\* user.emails[0].value throws a TypeError when the identity has no e-mail
Throws(user) == user.emails = <<>>

----------------------------------------------------------------------------
(* Requests in flight *)

Idle ==
    [pc |-> "idle", route |-> "", payload |-> Undefined, form |-> NoForm,
     user |-> Undefined, resp |-> <<>>, moves |-> <<>>, cbCalled |-> FALSE,
     slack |-> <<>>, slackResult |-> "none", trace |-> <<>>]

\* a finished request leaves its slot before the server takes another step
NoneDone == \A q \in Reqs : rq[q].pc # "done"

\* the lowest free slot takes the next request
Free(r) == NoneDone /\ rq[r].pc = "idle" /\ \A q \in Reqs : q < r => rq[q].pc # "idle"

\* the request as the session middleware hands it on: req.session.user is
\* the identity the store holds for the request's session
Arrived(route, s) == [Idle EXCEPT !.route = route, !.user = session[s]]

Pending(rec) == \E i \in 1..Len(rec.moves) : rec.moves[i] = "pending"

\* what the request still waits for
PcOf(rec) ==
    IF Pending(rec) THEN "relocating"
    ELSE IF rec.slackResult = "pending" THEN "notifying" ELSE "done"

Settle(rec) == [rec EXCEPT !.pc = PcOf(rec)]

Done(rec, response) == [rec EXCEPT !.pc = "done", !.resp = Append(@, response)]

\* the forms the request pipeline is run on: the application form with its
\* comments and the first n uploads of a pool
Pool ==
    <<[field |-> <<"r","e","s","u","m","e">>, name |-> <<"c","v",".","p","d","f">>],
      [field |-> <<"p","h","o","t","o">>, name |-> <<"m","e",".","p","n","g">>],
      [field |-> <<"l","e","t","t","e","r">>, name |-> <<"l",".","t","x","t">>],
      [field |-> <<"i","d">>, name |-> <<"i","d",".","j","p","g">>]>>

Application(n) ==
    [fields |-> <<[name |-> fullName, value |-> "Jane Doe"],
                  [name |-> email, value |-> "jane@x.com"],
                  [name |-> comments, value |-> "hi"]>>,
     uploads |-> SubSeq(Pool, 1, n)]

----------------------------------------------------------------------------
(* The callback of async.parallel(renameJobs, ...) *)

\* mutant: the error branch does not return
relocateCallback_NoReturn(err) ==
    IF err THEN <<"send500", "redirect", "slack">> ELSE <<"redirect", "slack">>

\* mutant: slack(...) is called before res.redirect
relocateCallback_NotifyFirst(err) == IF err THEN <<"send500">> ELSE <<"slack", "redirect">>

\* what the callback does, in order, when called with err / without
relocateCallback(err) == IF err THEN <<"send500">> ELSE <<"redirect", "slack">>

RECURSIVE Run(_, _)
Run(rec, steps) ==
    IF steps = <<>> THEN rec
    ELSE LET step == Head(steps)
             next ==
                 CASE step = "send500" ->
                        [rec EXCEPT !.resp = Append(@, ServerError),
                                    !.trace = Append(@, "error-response-sent")]
                   [] step = "redirect" ->
                        [rec EXCEPT !.resp = Append(@, Redirect("/thanks")),
                                    !.trace = Append(@, "redirect-sent")]
                   [] step = "slack" ->
                        [rec EXCEPT !.slack = Append(@, SlackPayload(rec.user, rec.form)),
                                    !.slackResult = "pending",
                                    !.trace = Append(@, "notifying")]
         IN  Run(next, Tail(steps))

\* mutant: the first task to succeed completes the set
parallelComplete_Any(moves) == \E i \in 1..Len(moves) : moves[i] = "ok"

\* async.parallel: every task has called back without an error
parallelComplete(moves) == \A i \in 1..Len(moves) : moves[i] = "ok"

\* async.parallel calls its callback once: with the first error, or when
\* all tasks are complete
Callback(rec, err) ==
    IF rec.cbCalled THEN rec
    ELSE Run([rec EXCEPT !.cbCalled = TRUE,
                         !.trace = Append(@, IF err THEN "relocate-failed" ELSE "relocated")],
             relocateCallback(err))

----------------------------------------------------------------------------
(* Actions *)

Init ==
    /\ session = [s \in Sessions |-> Undefined]
    /\ hits = 0
    /\ formValue = [fullName |-> "", email |-> ""]
    /\ rq = [r \in Reqs |-> Idle]
    /\ wire = NoForm
    /\ out = <<>>

Guarded(route, user) == route \in GuardedRoutes /\ ~validate(user)

\* app.post('/signin', rateLimit(), ...)
PostSignin(r, s, body) ==
    /\ Free(r)
    /\ hits' = Counted(hits)
    /\ LET rec == [Arrived("POST /signin", s) EXCEPT !.payload = body]
       IN  IF ~rateLimit(hits)
           THEN /\ rq' = [rq EXCEPT ![r] = Done(rec, Throttled)]
                /\ UNCHANGED session
           ELSE IF signinAccepts(body)
           THEN /\ session' = [session EXCEPT ![s] = body]
                /\ rq' = [rq EXCEPT ![r] = Done(rec, Status(200))]
           ELSE /\ rq' = [rq EXCEPT ![r] = Done(rec, Status(401))]
                /\ UNCHANGED session
    /\ UNCHANGED <<formValue, wire, out>>

\* app.get('/thanks', validate(), ...)
GetThanks(r, s) ==
    /\ Free(r)
    /\ LET rec == Arrived("GET /thanks", s)
       IN  rq' = [rq EXCEPT ![r] =
                    IF Guarded("GET /thanks", rec.user)
                    THEN Done(rec, GuardResponse)
                    ELSE Done(rec, Resp(200, "", "thanks", "", ""))]
    /\ UNCHANGED <<session, hits, formValue, wire, out>>

\* app.get('/apply', validate(), ...): up to the call of res.render
GetApply(r, s) ==
    /\ Free(r)
    /\ LET rec == Arrived("GET /apply", s)
           user == rec.user
       IN  IF Guarded("GET /apply", user)
           THEN /\ rq' = [rq EXCEPT ![r] = Done(rec, GuardResponse)]
                /\ UNCHANGED formValue
           ELSE IF Throws(user)
           THEN \* fullName.value is assigned, then emails[0].value throws
                /\ formValue' = [formValue EXCEPT !.fullName = user.displayName]
                /\ rq' = [rq EXCEPT ![r] = Done(rec, ServerError)]
           ELSE /\ formValue' = [fullName |-> user.displayName, email |-> user.emails[1]]
                /\ rq' = [rq EXCEPT ![r] = [rec EXCEPT !.pc = "rendering"]]
    /\ UNCHANGED <<session, hits, wire, out>>

\* the view engine renders 'apply': it reads strings.apply.form now
RenderDone(r) ==
    /\ NoneDone
    /\ rq[r].pc = "rendering"
    /\ rq' = [rq EXCEPT ![r] = Done(@, Page("apply", formValue))]
    /\ UNCHANGED <<session, hits, formValue, wire, out>>

\* app.post('/apply', validate(), rateLimit(), ...): up to the return of
\* async.parallel, which has started one mv per upload
PostApply(r, s, n) ==
    /\ Free(r)
    /\ LET rec == [Arrived("POST /apply", s) EXCEPT !.form = Application(n)]
           user == rec.user
           files == RelocatedFiles(rec.form.uploads)
           started == [rec EXCEPT !.trace = <<"received", "files-relocating">>,
                                  !.moves = [i \in 1..Len(files) |-> "pending"]]
       IN  IF Guarded("POST /apply", user)
           THEN /\ rq' = [rq EXCEPT ![r] = Done(rec, GuardResponse)]
                /\ UNCHANGED hits
           ELSE /\ hits' = Counted(hits)
                /\ rq' = [rq EXCEPT ![r] =
                            IF ~rateLimit(hits) THEN Done(rec, Throttled)
                            ELSE IF Throws(user)
                            THEN \* the handler's first statement throws: the
                                 \* catch-all error handler answers
                                 Done([rec EXCEPT !.trace = <<"received", "error-response-sent">>],
                                      ServerError)
                            ELSE IF files = <<>>
                            THEN \* no task: async.parallel calls back at once
                                 Settle(Callback(started, FALSE))
                            ELSE Settle(started)]
    /\ UNCHANGED <<session, formValue, wire, out>>

\* one mv calls back, with an error or without
MoveDone(r, i, ok) ==
    /\ NoneDone
    /\ i \in 1..Len(rq[r].moves)
    /\ rq[r].moves[i] = "pending"
    /\ LET moved == [rq[r] EXCEPT !.moves[i] = IF ok THEN "ok" ELSE "failed"]
       IN  rq' = [rq EXCEPT ![r] =
                    Settle(IF ~ok THEN Callback(moved, TRUE)
                           ELSE IF parallelComplete(moved.moves) THEN Callback(moved, FALSE)
                           ELSE moved)]
    /\ UNCHANGED <<session, hits, formValue, wire, out>>

\* the webhook request ends: lib/slack logs a failure, nothing else
SlackDone(r, ok) ==
    /\ NoneDone
    /\ rq[r].slackResult = "pending"
    /\ rq' = [rq EXCEPT ![r] =
                Settle([@ EXCEPT !.slackResult = IF ok THEN "ok" ELSE "failed",
                                 !.trace = Append(@, IF ok THEN "notified" ELSE "notify-failed")])]
    /\ UNCHANGED <<session, hits, formValue, wire, out>>

\* the request is over and its slot is free again
Close(r) ==
    /\ rq[r].pc = "done"
    /\ rq' = [rq EXCEPT ![r] = Idle]
    /\ UNCHANGED <<session, hits, formValue, wire, out>>

\* the rate limiter's window closes: its entry ages out
WindowElapsed ==
    /\ NoneDone
    /\ hits > 0
    /\ hits' = 0
    /\ UNCHANGED <<session, formValue, rq, wire, out>>

\* the routes, and the callbacks of what they started, over the slots R
NextOn(R) ==
    \/ \E r \in R, s \in Sessions, body \in SignInBodies : PostSignin(r, s, body)
    \/ \E r \in R, s \in Sessions : GetThanks(r, s)
    \/ \E r \in R, s \in Sessions : GetApply(r, s)
    \/ \E r \in R : RenderDone(r)
    \/ \E r \in R, s \in Sessions, n \in 0..MaxFiles : PostApply(r, s, n)
    \/ \E r \in R, i \in 1..MaxFiles, ok \in BOOLEAN : MoveDone(r, i, ok)
    \/ \E r \in R, ok \in BOOLEAN : SlackDone(r, ok)
    \/ \E r \in R : Close(r)
    \/ WindowElapsed

Next == NextOn(Reqs)

\* the server, handling up to two requests at a time
Spec == Init /\ [][Next]_vars

NextSerial == NextOn({1})

\* the server when every request ends before the next one arrives
Serial == Init /\ [][NextSerial]_vars

----------------------------------------------------------------------------
(* The form checks: a form is put together field by field and upload by    *)
(* upload, and then handled as POST /apply handles one whose moves all     *)
(* succeed.                                                                *)

FieldNameSet == {fullName, email, comments, <<"9">>, <<"1", "0">>}
FieldValueSet == {"Jane Doe", "x"}
UploadFieldSet == {<<"c", "v">>, <<"c", "v", "-", "2">>, <<"7">>}
FileNameSet == {<<"x">>, <<"2", "-", "x">>}

AddField(name, value) ==
    /\ out = <<>>
    /\ Len(wire.fields) < MaxFields
    /\ \A i \in 1..Len(wire.fields) : wire.fields[i].name # name
    /\ wire' = [wire EXCEPT !.fields = Append(@, [name |-> name, value |-> value])]
    /\ UNCHANGED <<session, hits, formValue, rq, out>>

AddUpload(field, name) ==
    /\ out = <<>>
    /\ Len(wire.uploads) < MaxUploads
    /\ \A i \in 1..Len(wire.uploads) : wire.uploads[i].field # field
    /\ wire' = [wire EXCEPT !.uploads = Append(@, [field |-> field, name |-> name])]
    /\ UNCHANGED <<session, hits, formValue, rq, out>>

\* the handler of POST /apply on `wire`: the relocated files and the payload
Submit ==
    /\ out = <<>>
    /\ out' = <<[files |-> RelocatedFiles(wire.uploads), payload |-> SlackPayload(Ann, wire)]>>
    /\ UNCHANGED <<session, hits, formValue, rq, wire>>

NewForm ==
    /\ out # <<>>
    /\ wire' = NoForm
    /\ out' = <<>>
    /\ UNCHANGED <<session, hits, formValue, rq>>

FormNext ==
    \/ \E name \in FieldNameSet, value \in FieldValueSet : AddField(name, value)
    \/ \E field \in UploadFieldSet, name \in FileNameSet : AddUpload(field, name)
    \/ Submit
    \/ NewForm

FormSpec == Init /\ [][FormNext]_vars

----------------------------------------------------------------------------
(* Properties *)

IsPostApply(r) == rq[r].route = "POST /apply"
\* the handler of POST /apply ran: the guard and the rate limiter passed
Handled(r) == IsPostApply(r) /\ rq[r].trace # <<>>

\* C1: a request to GET /apply, GET /thanks or POST /apply whose session
\* holds no identity is answered by the guard alone: its only response is
\* the guard's, no page is rendered, no move is started and no notification
\* is dispatched.
C1_GuardDenies ==
    \A r \in Reqs :
        (rq[r].route \in {"GET /apply", "GET /thanks", "POST /apply"} /\ rq[r].user = Undefined)
            => /\ rq[r].pc = "done"
               /\ rq[r].resp = <<GuardResponse>>
               /\ rq[r].moves = <<>>
               /\ rq[r].slack = <<>>
               /\ rq[r].trace = <<>>

\* a signed-out session is denied POST /apply while another session is signed in
C1_Witness ==
    \E r \in Reqs :
        /\ IsPostApply(r) /\ rq[r].user = Undefined
        /\ rq[r].resp = <<GuardResponse>>
        /\ \E s \in Sessions : session[s] = Ann

\* C2 as stated: every POST /signin whose body has no user, or a user whose
\* kind is not plus#person, is answered 401 and leaves the session store as
\* it was.
C2_Original ==
    [][\A r \in Reqs :
          (/\ rq[r].pc = "idle"
           /\ rq'[r].route = "POST /signin"
           /\ (rq'[r].payload = Undefined \/ rq'[r].payload.kind # "plus#person"))
              => (rq'[r].resp = <<Status(401)>> /\ session' = session)]_vars

\* C2 amended: such a POST /signin leaves the session store as it was, and
\* is answered 401 when the rate limiter lets it through and 429 when not.
C2_Amended ==
    [][\A r \in Reqs :
          (/\ rq[r].pc = "idle"
           /\ rq'[r].route = "POST /signin"
           /\ (rq'[r].payload = Undefined \/ rq'[r].payload.kind # "plus#person"))
              => /\ session' = session
                 /\ hits < RateMax => rq'[r].resp = <<Status(401)>>
                 /\ hits >= RateMax => rq'[r].resp = <<Throttled>>]_vars

\* a signed-in session posts a page identity: 401, and the session keeps Ann
C2_Witness ==
    \E r \in Reqs :
        /\ rq[r].route = "POST /signin" /\ rq[r].payload = Eve
        /\ rq[r].user = Ann
        /\ rq[r].resp = <<Status(401)>>
        /\ \E s \in Sessions : session[s] = Ann

\* C3: every POST /signin whose payload has kind plus#person is answered 200
\* and stores the payload as the session identity, and every later GET /apply
\* of a session holding such an identity renders the form with the
\* identity's displayName and first e-mail value.
C3_SignInThenPrefill ==
    /\ \A r \in Reqs :
          (rq[r].route = "POST /signin" /\ rq[r].pc = "done" /\ rq[r].payload.kind = "plus#person")
              => /\ rq[r].resp = <<Status(200)>>
                 /\ \E s \in Sessions : session[s] = rq[r].payload
    /\ \A r \in Reqs :
          (rq[r].route = "GET /apply" /\ rq[r].pc = "done" /\ rq[r].user.kind = "plus#person")
              => /\ Len(rq[r].resp) = 1
                 /\ rq[r].resp[1].page = "apply"
                 /\ rq[r].resp[1].fullName = rq[r].user.displayName
                 /\ rq[r].user.emails # <<>>
                 /\ rq[r].resp[1].email = rq[r].user.emails[1]

\* C4: once a move of a submission has failed, the client has exactly one
\* response, the 500, never the redirect to /thanks, and no notification
\* was dispatched, whatever the other moves do.
C4_FailedMoveRejects ==
    \A r \in Reqs :
        (IsPostApply(r) /\ \E i \in 1..Len(rq[r].moves) : rq[r].moves[i] = "failed")
            => /\ rq[r].resp = <<ServerError>>
               /\ rq[r].slack = <<>>
               /\ rq[r].slackResult = "none"

\* one move failed, another succeeded, and the request is over
C4_Witness ==
    \E r \in Reqs :
        /\ IsPostApply(r) /\ rq[r].pc = "done"
        /\ \E i, j \in 1..Len(rq[r].moves) : rq[r].moves[i] = "failed" /\ rq[r].moves[j] = "ok"
        /\ rq[r].resp = <<ServerError>>

\* C6: a notification is dispatched only after the redirect to /thanks was
\* sent, and from then on the client's response is that one redirect,
\* whether the delivery is pending, has succeeded or has failed.
C6_NotifyAfterRedirect ==
    \A r \in Reqs :
        IsPostApply(r)
            => /\ (rq[r].slack # <<>> \/ rq[r].slackResult # "none")
                    => rq[r].resp = <<Redirect("/thanks")>>
               /\ \A i \in 1..Len(rq[r].trace) :
                    rq[r].trace[i] = "notifying"
                        => \E j \in 1..(i - 1) : rq[r].trace[j] = "redirect-sent"

\* the delivery failed and the client still has its redirect, nothing else
C6_Witness ==
    \E r \in Reqs :
        /\ IsPostApply(r)
        /\ rq[r].slackResult = "failed"
        /\ rq[r].resp = <<Redirect("/thanks")>>

Transitions ==
    {<<"received", "files-relocating">>,
     <<"files-relocating", "relocated">>,
     <<"relocated", "redirect-sent">>,
     <<"redirect-sent", "notifying">>,
     <<"notifying", "notified">>,
     <<"notifying", "notify-failed">>,
     <<"files-relocating", "relocate-failed">>,
     <<"relocate-failed", "error-response-sent">>}

Terminal == {"error-response-sent", "notified", "notify-failed"}

\* C8: a POST /apply that passed the guard and the rate limiter starts in
\* received and takes only the transitions of the submission state machine;
\* it sends at most one response and one notification, and when it is over
\* it is in a terminal state with exactly one response sent.
C8_StateMachine ==
    \A r \in Reqs :
        Handled(r)
            => /\ rq[r].trace[1] = "received"
               /\ \A i \in 1..(Len(rq[r].trace) - 1) :
                    <<rq[r].trace[i], rq[r].trace[i + 1]>> \in Transitions
               /\ Len(rq[r].resp) <= 1
               /\ Len(rq[r].slack) <= 1
               /\ rq[r].pc = "done"
                    => /\ rq[r].trace[Len(rq[r].trace)] \in Terminal
                       /\ Len(rq[r].resp) = 1

\* C9: every rendered application form is pre-filled with the displayName
\* and the first e-mail of the identity of the session that asked for it.
C9_OwnPrefill ==
    \A r \in Reqs :
        (/\ rq[r].route = "GET /apply"
         /\ rq[r].pc = "done"
         /\ Len(rq[r].resp) = 1
         /\ rq[r].resp[1].page = "apply")
            => /\ rq[r].resp[1].fullName = rq[r].user.displayName
               /\ rq[r].resp[1].email = rq[r].user.emails[1]

\* what C5 says the field list of the form on the wire is
C5_Expected ==
    LET notComments(f) == f.name # comments
        texts == SelectSeq(wire.fields, notComments)
    IN  [i \in 1..Len(texts) |->
            [title |-> Str(TitleCase(texts[i].name)), value |-> texts[i].value, short |-> TRUE]]
        \o [i \in 1..Len(wire.uploads) |->
            [title |-> Str(wire.uploads[i].field),
             value |-> "<" \o originUri \o "/images/" \o Str(wire.uploads[i].field)
                           \o "-" \o Str(wire.uploads[i].name) \o "|View>",
             short |-> TRUE]]

\* C5: the notification's field list is the N text fields other than
\* comments, in the order they were submitted, titled with the Title-Cased
\* name, followed by the M uploads in upload order, titled with the field
\* name and valued <uri|View>.
C5_FieldList ==
    out # <<>> => out[1].payload.fields = C5_Expected

\* C10: two uploads of one submission with different field names are
\* relocated to different destination paths and different public URIs.
C10_DistinctDestinations ==
    out # <<>> =>
        \A i, j \in 1..Len(out[1].files) :
            out[1].files[i].fieldname # out[1].files[j].fieldname
                => /\ out[1].files[i].dest # out[1].files[j].dest
                   /\ out[1].files[i].uri # out[1].files[j].uri

====
